---- MODULE Spec2Model ----
(***************************************************************************)
(* The book service of chodoyun/gitGo: an HTTP CRUD front over the table   *)
(* bz.dbo.tbl_book with an in-memory mirror, the package variable books.   *)
(* Every request runs in its own goroutine (net/http), the handlers take   *)
(* no lock, and every database call is its own statement: each statement   *)
(* and each access to books is one step of the model.                      *)
(***************************************************************************)
EXTENDS Integers, Sequences, FiniteSets, TLC

VARIABLES
    phase,      \* main(): "config", "connect", "scan", "serving", "fatal"
    cursor,     \* rows of the startup SELECT * not yet scanned
    table,      \* bz.dbo.tbl_book: a set of rows
    nextId,     \* the identity value the next INSERT gets
    clock,      \* what GETDATE() returns, in ticks
    books,      \* var books []Book
    pc,         \* per request worker: where its handler stands
    req,        \* per worker: the request it serves
    loc,        \* per worker: the handler's local variables and where it returned
    resp,       \* per worker: the response written last
    nreq,       \* requests accepted so far
    serial,     \* environment: requests arrive one at a time
    dbMayFail   \* environment: a database call may return an error

vars == <<phase, cursor, table, nextId, clock, books, pc, req, loc, resp,
          nreq, serial, dbMayFail>>

----------------------------------------------------------------------------
(* Bounds of the model. *)
NumWorkers == 2
MaxRequests == 3
MaxId == 2
MaxInitRows == 1
MaxClock == 2
TicksPerSecond == 2

Workers == 1..NumWorkers

----------------------------------------------------------------------------
(* Values. *)

\* config.APIKey, required non-empty by loadConfig.
APIKey == "secret"

\* The X-API-Key header of a request: absent, wrong, right.
Keys == {"", "wrong", APIKey}

\* The zero value of Book.
ZeroBook == [ID |-> "", Title |-> "", Author |-> "", Year |-> 0, Regdate |-> ""]

\* Request bodies: two well-formed ones and one json.Decode rejects.
Dune == [ok |-> TRUE, Title |-> "Dune", Author |-> "Herbert", Year |-> 1965]
Emma == [ok |-> TRUE, Title |-> "Emma", Author |-> "Austen", Year |-> 1815]
Malformed == [ok |-> FALSE, Title |-> "", Author |-> "", Year |-> 0]
NoBody == [ok |-> TRUE, Title |-> "", Author |-> "", Year |-> 0]
Bodies == {Dune, Emma, Malformed}

\* Path ids a client may ask for: the text of every id the table can hold.
PathIds == {ToString(i) : i \in 1..MaxId}

ReadOps == {"GetBooks", "GetBook"}
WriteOps == {"CreateBook", "UpdateBook", "DeleteBook"}
Ops == ReadOps \cup WriteOps

\* The routes main registers: the five /books routes and GET /health.
Routes == Ops \cup {"HealthCheck"}

\* The routes main leaves outside the gate.
Guarded_WritesOnly(op) == op \in WriteOps

\* The routes registered as auth(handler): every /books route, not /health.
Guarded(op) == op \in Ops

NoReq == [op |-> "", key |-> "", id |-> "", body |-> NoBody]
NoLoc == [book |-> ZeroBook, rows |-> 0, idx |-> 0, seen |-> <<>>,
          inserted |-> 0, wrote |-> FALSE, touched |-> FALSE, last |-> ""]
NoResp == [op |-> "", id |-> "", status |-> 0, book |-> ZeroBook, list |-> <<>>]

\* Outcomes of one database call: TRUE is err == nil.
DbOutcomes == IF dbMayFail THEN {TRUE, FALSE} ELSE {TRUE}

----------------------------------------------------------------------------
(* Time values and their two renderings.  A regdate is a tick count; the   *)
(* startup load formats it with the layout "2006-01-02 15:04:05", which    *)
(* drops the fraction of the second, while Scan into a string field        *)
(* (database/sql) renders a time.Time with time.RFC3339Nano.               *)

Seconds(t) == t \div TicksPerSecond
Fraction(t) == t % TicksPerSecond

FormatLayout(t) == "2006-01-02 15:04:0" \o ToString(Seconds(t))

FormatRFC3339Nano(t) ==
    "2006-01-02T15:04:0" \o ToString(Seconds(t))
        \o (IF Fraction(t) = 0 THEN "" ELSE "." \o ToString(Fraction(t)))
        \o "Z"

\* rows.Scan into id, title, author string, year int, regdate time.Time, then
\* the Book literal of main.
LoadBook(row) ==
    [ID |-> ToString(row.id), Title |-> row.title, Author |-> row.author,
     Year |-> row.year, Regdate |-> FormatLayout(row.regdate)]

\* QueryRow(...).Scan(&b.ID, &b.Title, &b.Author, &b.Year, &b.Regdate).
ScanBook(row) ==
    [ID |-> ToString(row.id), Title |-> row.title, Author |-> row.author,
     Year |-> row.year, Regdate |-> FormatRFC3339Nano(row.regdate)]

----------------------------------------------------------------------------
(* The table. *)

Row(i, b, t) ==
    [id |-> i, title |-> b.Title, author |-> b.Author, year |-> b.Year,
     regdate |-> t]

\* WHERE id = ?
RowsById(tbl, id) == {r \in tbl : ToString(r.id) = id}

\* SELECT TOP 1 ... ORDER BY regdate DESC: any row of the greatest regdate.
TopByRegdate(tbl) == {r \in tbl : \A q \in tbl : q.regdate <= r.regdate}

\* UPDATE ... SET title = ?, author = ?, year = ? WHERE id = ?
UpdateRows(tbl, id, b) ==
    {IF ToString(r.id) = id
        THEN [r EXCEPT !.title = b.Title, !.author = b.Author, !.year = b.Year]
        ELSE r : r \in tbl}

\* DELETE ... WHERE id = ?
DeleteRows(tbl, id) == {r \in tbl : ToString(r.id) # id}

\* The tables the service may find at startup: rows 1..k, registered at tick
\* 0.  The clock starts at tick 1: a row that was there before the process
\* started is older than any row the service inserts, while two inserts of the
\* service may fall into one tick of GETDATE().
InitTables == {{Row(i, Dune, 0) : i \in 1..k} : k \in 0..MaxInitRows}

----------------------------------------------------------------------------
(* The mirror. *)

\* A search that takes the last entry when no ID is the id.
FindIndex_AbsentIsLast(bs, id) ==
    IF \E i \in 1..Len(bs) : bs[i].ID = id
        THEN CHOOSE i \in 1..Len(bs) :
                 bs[i].ID = id /\ \A j \in 1..(i - 1) : bs[j].ID # id
        ELSE Len(bs)

\* for i, b := range books { if b.ID == id {...; break} }: the first index
\* whose ID is id, 0 when there is none.
FindIndex(bs, id) ==
    IF \E i \in 1..Len(bs) : bs[i].ID = id
        THEN CHOOSE i \in 1..Len(bs) :
                 bs[i].ID = id /\ \A j \in 1..(i - 1) : bs[j].ID # id
        ELSE 0

\* append(books[:i], books[i+1:]...)
RemoveAt(bs, i) == SubSeq(bs, 1, i - 1) \o SubSeq(bs, i + 1, Len(bs))

----------------------------------------------------------------------------
Init0 ==
    /\ phase = "config"
    /\ cursor = {}
    /\ table \in InitTables
    /\ nextId = Cardinality(table) + 1
    /\ clock = 1
    /\ books = <<>>
    /\ pc = [w \in Workers |-> "idle"]
    /\ req = [w \in Workers |-> NoReq]
    /\ loc = [w \in Workers |-> NoLoc]
    /\ resp = [w \in Workers |-> NoResp]
    /\ nreq = 0

Init == Init0 /\ serial = FALSE /\ dbMayFail = TRUE

InitSeq == Init0 /\ serial = TRUE /\ dbMayFail = FALSE

InitNoFail == Init0 /\ serial = FALSE /\ dbMayFail = FALSE

----------------------------------------------------------------------------
(* main(): configuration, connection, the startup load, then the server.   *)

\* loadConfig: log.Fatal when a required variable is empty.
LoadConfig ==
    /\ phase = "config"
    /\ \E ok \in BOOLEAN : phase' = IF ok THEN "connect" ELSE "fatal"
    /\ UNCHANGED <<cursor, table, nextId, clock, books, pc, req, loc, resp,
                   nreq, serial, dbMayFail>>

\* connectDB (sql.Open, db.Ping) and the two db.Query calls of main: log.Fatal
\* on any error, otherwise the result set of SELECT * is open.
ConnectDB ==
    /\ phase = "connect"
    /\ \E ok \in DbOutcomes :
          IF ok THEN phase' = "scan" /\ cursor' = table
                ELSE phase' = "fatal" /\ cursor' = cursor
    /\ UNCHANGED <<table, nextId, clock, books, pc, req, loc, resp, nreq,
                   serial, dbMayFail>>

\* One turn of for rows.Next(): Scan (log.Fatal on error), append to books.
\* SELECT * has no ORDER BY: the rows come in any order.
ScanRow ==
    /\ phase = "scan"
    /\ \E row \in cursor : \E ok \in DbOutcomes :
          IF ok THEN /\ books' = Append(books, LoadBook(row))
                     /\ cursor' = cursor \ {row}
                     /\ phase' = phase
                ELSE /\ phase' = "fatal"
                     /\ UNCHANGED <<books, cursor>>
    /\ UNCHANGED <<table, nextId, clock, pc, req, loc, resp, nreq, serial,
                   dbMayFail>>

\* for rows.Next() ends: rows.Next() returns false at the end of the result
\* set and also when fetching the next row fails; main never asks rows.Err().
LoopEnds == cursor = {} \/ FALSE \in DbOutcomes

\* The loop is over: the routes are registered and ListenAndServe starts
\* accepting.
Listen ==
    /\ phase = "scan"
    /\ LoopEnds
    /\ phase' = "serving"
    /\ cursor' = {}
    /\ UNCHANGED <<table, nextId, clock, books, pc, req, loc, resp,
                   nreq, serial, dbMayFail>>

\* Time passes on the database server.
Tick ==
    /\ phase = "serving"
    /\ clock < MaxClock
    /\ clock' = clock + 1
    /\ UNCHANGED <<phase, cursor, table, nextId, books, pc, req, loc, resp,
                   nreq, serial, dbMayFail>>

----------------------------------------------------------------------------
(* A request worker. *)

InFlight(w) == pc[w] \notin {"idle", "done"}

\* Creates accepted whose INSERT is still to come.
PendingInserts ==
    Cardinality({w \in Workers :
        req[w].op = "CreateBook" /\ pc[w] \in {"auth", "CreateBook", "create_exec"}})

\* A response as the client holds it: the route it asked, the status, the body.
Answer(r, status, book, list) ==
    [op |-> r.op, id |-> r.id, status |-> status, book |-> book, list |-> list]

\* The handler returns: the response is complete and the request is gone.
Respond(w, status, book, list) ==
    /\ pc' = [pc EXCEPT ![w] = "done"]
    /\ resp' = [resp EXCEPT ![w] = Answer(req[w], status, book, list)]
    /\ req' = [req EXCEPT ![w] = NoReq]
    /\ loc' = [loc EXCEPT ![w] = [NoLoc EXCEPT !.wrote = loc[w].wrote,
                                                !.touched = loc[w].touched,
                                                !.last = pc[w]]]

\* The handler moves on to its next statement.
Goto(w, label) == pc' = [pc EXCEPT ![w] = label] /\ req' = req

\* The router hands a request to a new goroutine.
Receive(w) ==
    /\ phase = "serving"
    /\ ~InFlight(w)
    /\ nreq < MaxRequests
    /\ serial => \A v \in Workers : ~InFlight(v)
    /\ \E op \in Routes, key \in Keys :
        \E id \in (IF op \in {"GetBook", "UpdateBook", "DeleteBook"} THEN PathIds ELSE {""}) :
        \E body \in (IF op \in {"CreateBook", "UpdateBook"} THEN Bodies ELSE {NoBody}) :
            /\ op = "CreateBook" => nextId + PendingInserts <= MaxId
            /\ req' = [req EXCEPT ![w] = [op |-> op, key |-> key, id |-> id, body |-> body]]
            /\ pc' = [pc EXCEPT ![w] = IF Guarded(op) THEN "auth" ELSE op]
    /\ loc' = [loc EXCEPT ![w] = NoLoc]
    /\ resp' = [resp EXCEPT ![w] = NoResp]
    /\ nreq' = nreq + 1
    /\ UNCHANGED <<phase, cursor, table, nextId, clock, books, serial, dbMayFail>>

\* The gate with its comparison against the secret left out.
AuthRejects_PresenceOnly(key) == key = ""

\* requestAPIKey == "" || requestAPIKey != apiKey
AuthRejects(key) == key = "" \/ key # APIKey

\* authMiddleware: 401 without the handler, or next.ServeHTTP.
authMiddleware(w) ==
    /\ pc[w] = "auth"
    /\ IF AuthRejects(req[w].key)
          THEN Respond(w, 401, ZeroBook, <<>>)
          ELSE Goto(w, req[w].op) /\ UNCHANGED <<resp, loc>>
    /\ UNCHANGED <<phase, cursor, table, nextId, clock, books, nreq,
                   serial, dbMayFail>>

\* HealthCheck: 200 with {"status": "healthy"}.
HealthCheck(w) ==
    /\ pc[w] = "HealthCheck"
    /\ Respond(w, 200, ZeroBook, <<>>)
    /\ UNCHANGED <<phase, cursor, table, nextId, clock, books, nreq,
                   serial, dbMayFail>>

\* GetBooks: json.NewEncoder(w).Encode(books), status 200.
GetBooks(w) ==
    /\ pc[w] = "GetBooks"
    /\ Respond(w, 200, ZeroBook, books)
    /\ UNCHANGED <<phase, cursor, table, nextId, clock, books, nreq,
                   serial, dbMayFail>>

\* The answer of a loop that keeps on after a match: the last book whose ID is
\* the id.
GetBookAnswer_LastMatch(bs, id) ==
    IF \E i \in 1..Len(bs) : bs[i].ID = id
        THEN [status |-> 200,
              book |-> bs[CHOOSE i \in 1..Len(bs) :
                          bs[i].ID = id /\ \A j \in (i + 1)..Len(bs) : bs[j].ID # id],
              list |-> <<>>]
        ELSE [status |-> 404, book |-> ZeroBook, list |-> <<>>]

\* What GetBook answers for a path id on a given slice: the first book whose
\* ID is the id with 200, else 404.
GetBookAnswer(bs, id) ==
    LET i == FindIndex(bs, id)
    IN IF i # 0 THEN [status |-> 200, book |-> bs[i], list |-> <<>>]
                ELSE [status |-> 404, book |-> ZeroBook, list |-> <<>>]

\* GetBook: mux.Vars(r)["id"], the scan of books, the answer.
GetBook(w) ==
    /\ pc[w] = "GetBook"
    /\ LET a == GetBookAnswer(books, req[w].id)
       IN Respond(w, a.status, a.book, a.list)
    /\ UNCHANGED <<phase, cursor, table, nextId, clock, books, nreq,
                   serial, dbMayFail>>

----------------------------------------------------------------------------
(* CreateBook. *)

\* json.NewDecoder(r.Body).Decode(&book): 400 on a malformed body.
CreateBook(w) ==
    /\ pc[w] = "CreateBook"
    /\ IF ~req[w].body.ok
          THEN Respond(w, 400, ZeroBook, <<>>)
          ELSE Goto(w, "create_exec") /\ UNCHANGED <<resp, loc>>
    /\ UNCHANGED <<phase, cursor, table, nextId, clock, books, nreq,
                   serial, dbMayFail>>

\* db.Exec("INSERT ... VALUES (?, ?, ?, GETDATE())"): 500 on error.
CreateExec(w) ==
    /\ pc[w] = "create_exec"
    /\ \E ok \in DbOutcomes :
          IF ok
             THEN /\ table' = table \cup {Row(nextId, req[w].body, clock)}
                  /\ nextId' = nextId + 1
                  /\ loc' = [loc EXCEPT ![w].inserted = nextId, ![w].wrote = TRUE]
                  /\ Goto(w, "create_query")
                  /\ UNCHANGED resp
             ELSE /\ Respond(w, 500, ZeroBook, <<>>)
                  /\ UNCHANGED <<table, nextId>>
    /\ UNCHANGED <<phase, cursor, clock, books, nreq, serial, dbMayFail>>

\* The create handler with its re-read left out: it goes on to the append with
\* the zero Book.
CreateQuery_Skipped(w) ==
    /\ pc[w] = "create_query"
    /\ Goto(w, "create_load")
    /\ UNCHANGED <<phase, cursor, table, nextId, clock, books, loc, resp, nreq,
                   serial, dbMayFail>>

\* db.QueryRow("SELECT TOP 1 ... ORDER BY regdate DESC").Scan(&newBook...):
\* 500 on error (sql.ErrNoRows when the table is empty).
CreateQuery(w) ==
    /\ pc[w] = "create_query"
    /\ \E ok \in DbOutcomes :
          IF ok /\ table # {}
             THEN \E row \in TopByRegdate(table) :
                     /\ loc' = [loc EXCEPT ![w].book = ScanBook(row)]
                     /\ Goto(w, "create_load")
                     /\ UNCHANGED resp
             ELSE Respond(w, 500, ZeroBook, <<>>)
    /\ UNCHANGED <<phase, cursor, table, nextId, clock, books, nreq,
                   serial, dbMayFail>>

\* books = append(books, newBook), first half: the slice is read.
CreateLoad(w) ==
    /\ pc[w] = "create_load"
    /\ loc' = [loc EXCEPT ![w].seen = books]
    /\ Goto(w, "create_store")
    /\ UNCHANGED <<phase, cursor, table, nextId, clock, books, resp, nreq,
                   serial, dbMayFail>>

\* books = append(books, newBook), second half: the grown slice is stored;
\* then 201 with newBook.
CreateStore(w) ==
    /\ pc[w] = "create_store"
    /\ books' = Append(loc[w].seen, loc[w].book)
    /\ pc' = [pc EXCEPT ![w] = "done"]
    /\ resp' = [resp EXCEPT ![w] = Answer(req[w], 201, loc[w].book, <<>>)]
    /\ req' = [req EXCEPT ![w] = NoReq]
    /\ loc' = [loc EXCEPT ![w] = [NoLoc EXCEPT !.wrote = TRUE, !.touched = TRUE,
                  !.last = pc[w]]]
    /\ UNCHANGED <<phase, cursor, table, nextId, clock, nreq, serial,
                   dbMayFail>>

----------------------------------------------------------------------------
(* UpdateBook. *)

\* The update handler with the decode error ignored: it goes on to the UPDATE
\* with whatever the body gave.
UpdateBook_DecodeIgnored(w) ==
    /\ pc[w] = "UpdateBook"
    /\ Goto(w, "update_exec")
    /\ UNCHANGED <<phase, cursor, table, nextId, clock, books, loc, resp, nreq,
                   serial, dbMayFail>>

\* mux.Vars(r)["id"], then Decode(&book): 400 on a malformed body.
UpdateBook(w) ==
    /\ pc[w] = "UpdateBook"
    /\ IF ~req[w].body.ok
          THEN Respond(w, 400, ZeroBook, <<>>)
          ELSE Goto(w, "update_exec") /\ UNCHANGED <<resp, loc>>
    /\ UNCHANGED <<phase, cursor, table, nextId, clock, books, nreq,
                   serial, dbMayFail>>

\* db.Exec("UPDATE ... WHERE id = ?"): 500 on error.
UpdateExec(w) ==
    /\ pc[w] = "update_exec"
    /\ \E ok \in DbOutcomes :
          IF ok
             THEN /\ table' = UpdateRows(table, req[w].id, req[w].body)
                  /\ loc' = [loc EXCEPT
                        ![w].rows = Cardinality(RowsById(table, req[w].id)),
                        ![w].wrote = RowsById(table, req[w].id) # {}]
                  /\ Goto(w, "update_rows")
                  /\ UNCHANGED resp
             ELSE /\ Respond(w, 500, ZeroBook, <<>>)
                  /\ UNCHANGED table
    /\ UNCHANGED <<phase, cursor, nextId, clock, books, nreq, serial,
                   dbMayFail>>

\* The rows-affected test written as a test for a negative count.
NoRowAffected_Negative(n) == n < 0

\* The rows-affected test inverted.
NoRowAffected_Inverted(n) == n # 0

\* rowsAffected == 0
NoRowAffected(n) == n = 0

\* result.RowsAffected(): 500 on error, 404 when no row was affected.
UpdateRowsAffected(w) ==
    /\ pc[w] = "update_rows"
    /\ \E ok \in DbOutcomes :
          IF ~ok THEN Respond(w, 500, ZeroBook, <<>>)
          ELSE IF NoRowAffected(loc[w].rows) THEN Respond(w, 404, ZeroBook, <<>>)
          ELSE Goto(w, "update_query") /\ UNCHANGED <<resp, loc>>
    /\ UNCHANGED <<phase, cursor, table, nextId, clock, books, nreq,
                   serial, dbMayFail>>

\* The update's re-read with a compensation on failure: the row is taken out
\* of the table again before the 500.
UpdateQuery_Compensates(w) ==
    /\ pc[w] = "update_query"
    /\ \E ok \in DbOutcomes :
          IF ok /\ RowsById(table, req[w].id) # {}
             THEN \E row \in RowsById(table, req[w].id) :
                     /\ loc' = [loc EXCEPT ![w].book = ScanBook(row)]
                     /\ Goto(w, "update_find")
                     /\ UNCHANGED <<resp, table>>
             ELSE /\ Respond(w, 500, ZeroBook, <<>>)
                  /\ table' = DeleteRows(table, req[w].id)
    /\ UNCHANGED <<phase, cursor, nextId, clock, books, nreq,
                   serial, dbMayFail>>

\* db.QueryRow("SELECT ... WHERE id = ?", id).Scan(&updatedBook...): 500 on
\* error (sql.ErrNoRows when the row is gone).
UpdateQuery(w) ==
    /\ pc[w] = "update_query"
    /\ \E ok \in DbOutcomes :
          IF ok /\ RowsById(table, req[w].id) # {}
             THEN \E row \in RowsById(table, req[w].id) :
                     /\ loc' = [loc EXCEPT ![w].book = ScanBook(row)]
                     /\ Goto(w, "update_find")
                     /\ UNCHANGED resp
             ELSE Respond(w, 500, ZeroBook, <<>>)
    /\ UNCHANGED <<phase, cursor, table, nextId, clock, books, nreq,
                   serial, dbMayFail>>

\* for i, b := range books { if b.ID == id: the index is found, or the loop
\* ends without a match and updatedBook is answered with 200.
UpdateFind(w) ==
    /\ pc[w] = "update_find"
    /\ LET i == FindIndex(books, req[w].id)
       IN IF i = 0
             THEN Respond(w, 200, loc[w].book, <<>>)
             ELSE /\ loc' = [loc EXCEPT ![w].idx = i]
                  /\ Goto(w, "update_store")
                  /\ UNCHANGED resp
    /\ UNCHANGED <<phase, cursor, table, nextId, clock, books, nreq,
                   serial, dbMayFail>>

\* books[i] = updatedBook; break; then 200 with updatedBook.  The index is
\* checked against the slice as it is now: out of range panics, and net/http
\* drops the connection without a response.
UpdateStore(w) ==
    /\ pc[w] = "update_store"
    /\ IF loc[w].idx <= Len(books)
          THEN /\ books' = [books EXCEPT ![loc[w].idx] = loc[w].book]
               /\ pc' = [pc EXCEPT ![w] = "done"]
               /\ resp' = [resp EXCEPT ![w] = Answer(req[w], 200, loc[w].book, <<>>)]
               /\ req' = [req EXCEPT ![w] = NoReq]
               /\ loc' = [loc EXCEPT ![w] = [NoLoc EXCEPT !.wrote = TRUE, !.touched = TRUE,
                  !.last = pc[w]]]
          ELSE /\ Respond(w, 0, ZeroBook, <<>>)
               /\ UNCHANGED books
    /\ UNCHANGED <<phase, cursor, table, nextId, clock, nreq, serial,
                   dbMayFail>>

----------------------------------------------------------------------------
(* DeleteBook. *)

\* mux.Vars(r)["id"]; db.Exec("DELETE ... WHERE id = ?"): 500 on error.
DeleteBook(w) ==
    /\ pc[w] = "DeleteBook"
    /\ \E ok \in DbOutcomes :
          IF ok
             THEN /\ table' = DeleteRows(table, req[w].id)
                  /\ loc' = [loc EXCEPT
                        ![w].rows = Cardinality(RowsById(table, req[w].id)),
                        ![w].wrote = RowsById(table, req[w].id) # {}]
                  /\ Goto(w, "delete_rows")
                  /\ UNCHANGED resp
             ELSE /\ Respond(w, 500, ZeroBook, <<>>)
                  /\ UNCHANGED table
    /\ UNCHANGED <<phase, cursor, nextId, clock, books, nreq, serial,
                   dbMayFail>>

\* result.RowsAffected(): 500 on error, 404 when no row was affected.
DeleteRowsAffected(w) ==
    /\ pc[w] = "delete_rows"
    /\ \E ok \in DbOutcomes :
          IF ~ok THEN Respond(w, 500, ZeroBook, <<>>)
          ELSE IF NoRowAffected(loc[w].rows) THEN Respond(w, 404, ZeroBook, <<>>)
          ELSE Goto(w, "delete_find") /\ UNCHANGED <<resp, loc>>
    /\ UNCHANGED <<phase, cursor, table, nextId, clock, books, nreq,
                   serial, dbMayFail>>

\* for i, book := range books { if book.ID == id: the index is found, or the
\* loop ends without a match and 200 is answered.
DeleteFind(w) ==
    /\ pc[w] = "delete_find"
    /\ LET i == FindIndex(books, req[w].id)
       IN IF i = 0
             THEN Respond(w, 200, ZeroBook, <<>>)
             ELSE /\ loc' = [loc EXCEPT ![w].idx = i]
                  /\ Goto(w, "delete_store")
                  /\ UNCHANGED resp
    /\ UNCHANGED <<phase, cursor, table, nextId, clock, books, nreq,
                   serial, dbMayFail>>

\* books = append(books[:i], books[i+1:]...); break; then 200.  The slice
\* expressions are taken of the slice as it is now: i+1 beyond its length
\* panics, and net/http drops the connection without a response.
DeleteStore(w) ==
    /\ pc[w] = "delete_store"
    /\ IF loc[w].idx <= Len(books)
          THEN /\ books' = RemoveAt(books, loc[w].idx)
               /\ pc' = [pc EXCEPT ![w] = "done"]
               /\ resp' = [resp EXCEPT ![w] = Answer(req[w], 200, ZeroBook, <<>>)]
               /\ req' = [req EXCEPT ![w] = NoReq]
               /\ loc' = [loc EXCEPT ![w] = [NoLoc EXCEPT !.wrote = TRUE, !.touched = TRUE,
                  !.last = pc[w]]]
          ELSE /\ Respond(w, 0, ZeroBook, <<>>)
               /\ UNCHANGED books
    /\ UNCHANGED <<phase, cursor, table, nextId, clock, nreq, serial,
                   dbMayFail>>

----------------------------------------------------------------------------
Next ==
    \/ LoadConfig
    \/ ConnectDB
    \/ ScanRow
    \/ Listen
    \/ Tick
    \/ \E w \in Workers :
        \/ Receive(w)
        \/ authMiddleware(w)
        \/ HealthCheck(w)
        \/ GetBooks(w)
        \/ GetBook(w)
        \/ CreateBook(w)
        \/ CreateExec(w)
        \/ CreateQuery(w)
        \/ CreateLoad(w)
        \/ CreateStore(w)
        \/ UpdateBook(w)
        \/ UpdateExec(w)
        \/ UpdateRowsAffected(w)
        \/ UpdateQuery(w)
        \/ UpdateFind(w)
        \/ UpdateStore(w)
        \/ DeleteBook(w)
        \/ DeleteRowsAffected(w)
        \/ DeleteFind(w)
        \/ DeleteStore(w)

\* Concurrent requests, database calls that may fail.
Spec == Init /\ [][Next]_vars

\* Requests handled one at a time, no database failure.
SpecSeq == InitSeq /\ [][Next]_vars

\* Concurrent requests, no database failure.
SpecNoFail == InitNoFail /\ [][Next]_vars

----------------------------------------------------------------------------
(* Steps of a worker that the properties speak about. *)

\* Worker w completes its request in this step.
Completes(w) == pc[w] # "done" /\ pc'[w] = "done"

\* Worker w completes a request of the given kind with the given status.
CompletesWith(w, op, status) ==
    Completes(w) /\ req[w].op = op /\ resp'[w].status = status

\* No request is being handled.
Quiescent == \A w \in Workers : ~InFlight(w)

----------------------------------------------------------------------------
\* C1: every create that answers 201 returns a book with a non-empty id, and
\* a get-by-id for that id issued right after it answers 200 with the very
\* book the create returned (id, title, author, year, regdate).
C1_CreateThenGet ==
    [][\A w \in Workers :
          CompletesWith(w, "CreateBook", 201) =>
              /\ resp'[w].book.ID # ""
              /\ GetBookAnswer(books', resp'[w].book.ID) =
                    [status |-> 200, book |-> resp'[w].book, list |-> <<>>]]_vars

----------------------------------------------------------------------------
\* The fields a request body sets, in a table row and in a cached book.
RowCarries(r, b) == r.title = b.Title /\ r.author = b.Author /\ r.year = b.Year
BookCarries(k, b) == k.Title = b.Title /\ k.Author = b.Author /\ k.Year = b.Year

\* C2: an update that answers 200 leaves the row and the cache entry of its
\* id with the title, author and year of its body, and with the id and the
\* regdate they had before.
C2_UpdateStoresBody ==
    [][\A w \in Workers :
          /\ (pc[w] = "update_exec" /\ pc'[w] = "update_rows") =>
                \A r \in RowsById(table, req[w].id) :
                    \E q \in RowsById(table', req[w].id) :
                        q.id = r.id /\ q.regdate = r.regdate /\ RowCarries(q, req[w].body)
          /\ CompletesWith(w, "UpdateBook", 200) =>
                LET i == FindIndex(books, req[w].id)
                    j == FindIndex(books', req[w].id)
                IN /\ RowsById(table', req[w].id) # {}
                   /\ \A r \in RowsById(table', req[w].id) : RowCarries(r, req[w].body)
                   /\ j # 0 => BookCarries(books'[j], req[w].body)
                   /\ i # 0 => /\ j = i
                               /\ books'[i].ID = books[i].ID
                               /\ books'[i].Regdate = books[i].Regdate]_vars

\* C3: after a delete that answers 200, a get-by-id for its id answers 404
\* and no entry of a list has that id.
C3_DeleteThenGone ==
    [][\A w \in Workers :
          CompletesWith(w, "DeleteBook", 200) =>
              /\ GetBookAnswer(books', req[w].id).status = 404
              /\ \A i \in 1..Len(books') : books'[i].ID # req[w].id]_vars

\* C4: a write request whose X-API-Key is missing or is not the configured
\* secret is answered 401 by the gate in the step that examines it, and that
\* step, the only one of the request, changes neither the table nor the cache.
C4_Unauthorized ==
    [][\A w \in Workers :
          (pc[w] = "auth" /\ req[w].op \in WriteOps /\ req[w].key # APIKey
              /\ pc'[w] # "auth") =>
              /\ pc'[w] = "done"
              /\ resp'[w].status = 401
              /\ table' = table
              /\ books' = books]_vars

C4_Witness ==
    \E w \in Workers :
        /\ pc[w] = "done" /\ resp[w].op \in WriteOps
        /\ resp[w].status = 401
        /\ table # {} /\ books # <<>>

\* C5: an update (well-formed body) or delete whose statement affected no row
\* is answered 404, or 500 when the rows-affected call itself fails, and no
\* step of it from the statement on changes the cache.
C5_NotFound ==
    [][\A w \in Workers :
          /\ (pc[w] \in {"update_exec", "DeleteBook"} /\ pc'[w] # pc[w]
                /\ RowsById(table, req[w].id) = {}) =>
                /\ books' = books
                /\ table' = table
                /\ pc'[w] \in {"update_rows", "delete_rows"} => loc'[w].rows = 0
          /\ (pc[w] \in {"update_rows", "delete_rows"} /\ pc'[w] # pc[w]
                /\ loc[w].rows = 0) =>
                /\ pc'[w] = "done"
                /\ resp'[w].status \in {404, 500}
                /\ resp'[w].status = 500 => dbMayFail
                /\ books' = books]_vars

C5_Witness ==
    \E w \in Workers :
        /\ pc[w] = "done" /\ resp[w].op \in {"UpdateBook", "DeleteBook"}
        /\ resp[w].status = 404
        /\ books # <<>>

ErrorStatuses == {400, 401, 404, 500}

\* Worker w ends a create, update or delete with an error status.
FailsWrite(w) ==
    Completes(w) /\ req[w].op \in WriteOps /\ resp'[w].status \in ErrorStatuses

\* The id of the row the request of w is about: the row it inserted for a
\* create, the path id otherwise.
TargetId(w) ==
    IF req[w].op = "CreateBook" THEN ToString(loc[w].inserted) ELSE req[w].id

\* The cache agrees with the table on one id: no row and no entry, or a row
\* and a first entry with the row's title, author and year.
MirrorsRow(bs, tbl, id) ==
    LET i == FindIndex(bs, id)
    IN IF RowsById(tbl, id) = {}
          THEN i = 0
          ELSE i # 0 /\ \A r \in RowsById(tbl, id) :
                   bs[i].Title = r.title /\ bs[i].Author = r.author /\ bs[i].Year = r.year

\* C6 as claimed: a create, update or delete that ends with an error status
\* has not modified the cache, and if it wrote to the table the cache agrees
\* with the table on the row it wrote.
C6_FailureNoDivergence ==
    [][\A w \in Workers :
          FailsWrite(w) =>
              /\ books' = books
              /\ ~loc[w].touched
              /\ loc[w].wrote => MirrorsRow(books', table', TargetId(w))]_vars

\* C6 as amended: a create, update or delete that ends with an error status
\* has not modified the cache; it has changed the table only when the status
\* is 500 and the failing call came after its write statement.
C6_FailureLeavesCache ==
    [][\A w \in Workers :
          FailsWrite(w) =>
              /\ books' = books
              /\ table' = table
              /\ ~loc[w].touched
              /\ loc[w].wrote =>
                    /\ resp'[w].status = 500
                    /\ pc[w] \in {"create_query", "update_rows", "update_query",
                                  "delete_rows"}]_vars

\* An update answered 500 after its UPDATE went through: the row carries the
\* new values, the cache entry the old ones.
C6_Witness ==
    \E w \in Workers :
        /\ pc[w] = "done" /\ resp[w].op = "UpdateBook" /\ resp[w].status = 500
        /\ loc[w].wrote /\ ~loc[w].touched
        /\ RowsById(table, resp[w].id) # {}
        /\ FindIndex(books, resp[w].id) # 0
        /\ ~MirrorsRow(books, table, resp[w].id)

\* Worker w stands between its read of books and the write that rests on it.
CacheMutating(w) == pc[w] \in {"create_store", "update_store", "delete_store"}

\* C7: no two workers are inside a mutation of the cache at once.
C7_MutualExclusion ==
    \A v, w \in Workers : (v # w) => ~(CacheMutating(v) /\ CacheMutating(w))

\* The cache holds exactly one entry per row of the table, with the row's id,
\* title, author and year, and nothing else.
MirrorMatchesTable ==
    /\ Len(books) = Cardinality(table)
    /\ \A r \in table : \E i \in 1..Len(books) :
          /\ books[i].ID = ToString(r.id)
          /\ books[i].Title = r.title
          /\ books[i].Author = r.author
          /\ books[i].Year = r.year

\* C8: with requests handled one at a time and no database failure, whenever
\* the server is up and no request is in flight the cache matches the table.
C8_MirrorConsistent ==
    (phase = "serving" /\ Quiescent) => MirrorMatchesTable

\* C9: whenever no request is in flight, every cached book is a row of the
\* table with the same title, author and year.
C9_CachedRowsExist ==
    (phase = "serving" /\ Quiescent) =>
        \A i \in 1..Len(books) : \E r \in table :
            /\ books[i].ID = ToString(r.id)
            /\ books[i].Title = r.title
            /\ books[i].Author = r.author
            /\ books[i].Year = r.year

\* C10: the book a create re-reads is the row that create inserted.
C10_RereadsOwnRow ==
    [][\A w \in Workers :
          (pc[w] = "create_query" /\ pc'[w] = "create_load") =>
              loc'[w].book.ID = ToString(loc[w].inserted)]_vars

----------------------------------------------------------------------------
\* Worker w holds a row its confirmation re-read returned.
Reread(w) == loc[w].book # ZeroBook

\* C11: once the server is up, a step changes the cache only when it is the
\* store of a create, update or delete whose own statement has changed the
\* table before and, for create and update, whose re-read has returned a row;
\* such a request ends with 201 or 200.
C11_MutationAfterPersistence ==
    [][(phase = "serving" /\ books' # books) =>
          \E w \in Workers :
              /\ pc[w] \in {"create_store", "update_store", "delete_store"}
              /\ pc'[w] = "done"
              /\ req[w].op \in WriteOps
              /\ loc[w].wrote
              /\ req[w].op \in {"CreateBook", "UpdateBook"} => Reread(w)
              /\ resp'[w].status = IF req[w].op = "CreateBook" THEN 201 ELSE 200]_vars

\* An update and a delete have both changed the cache and answered 200.
C11_Witness ==
    \E v, w \in Workers :
        /\ pc[v] = "done" /\ resp[v].op = "UpdateBook" /\ resp[v].status = 200
        /\ loc[v].wrote /\ loc[v].touched
        /\ pc[w] = "done" /\ resp[w].op = "DeleteBook" /\ resp[w].status = 200
        /\ loc[w].wrote /\ loc[w].touched

----------------------------------------------------------------------------
\* C12: the gate answers 401 and leaves the handler alone when the key is
\* empty or is not the secret, and otherwise hands the unchanged request to
\* the handler; a /books handler is entered only from the gate with the right
\* key, every accepted /books request starts at the gate, and a /health
\* request starts at its handler whatever its key and is answered 200.
C12_AuthGate ==
    [][\A w \in Workers :
          /\ (pc[w] = "auth" /\ pc'[w] # "auth") =>
                IF req[w].key = "" \/ req[w].key # APIKey
                   THEN /\ pc'[w] = "done"
                        /\ resp'[w].status = 401
                        /\ table' = table
                        /\ books' = books
                   ELSE /\ pc'[w] = req[w].op
                        /\ req'[w] = req[w]
          /\ (pc'[w] \in Ops /\ pc[w] # pc'[w]) =>
                pc[w] = "auth" /\ req[w].key = APIKey
          /\ (pc[w] \in {"idle", "done"} /\ pc'[w] \notin {"idle", "done"}) =>
                pc'[w] = IF req'[w].op = "HealthCheck" THEN "HealthCheck" ELSE "auth"
          /\ (pc[w] = "HealthCheck" /\ pc'[w] # "HealthCheck") =>
                pc'[w] = "done" /\ resp'[w].status = 200]_vars

\* A read was turned away with 401 while a /health request without a key has
\* reached its handler.
C12_Witness ==
    \E v, w \in Workers :
        /\ pc[v] = "done" /\ resp[v].op \in ReadOps /\ resp[v].status = 401
        /\ pc[w] = "HealthCheck" /\ req[w].key = ""

----------------------------------------------------------------------------
\* The statuses the contract lists for each endpoint.
ContractStatuses(op) ==
    CASE op = "GetBooks" -> {200, 401}
      [] op = "GetBook" -> {200, 401, 404}
      [] op = "CreateBook" -> {201, 400, 401, 500}
      [] op = "UpdateBook" -> {200, 400, 401, 404, 500}
      [] op = "DeleteBook" -> {200, 401, 404, 500}
      [] OTHER -> {200}

\* The steps of a handler that are a database call.
DbCallSteps ==
    {"create_exec", "create_query", "update_exec", "update_rows",
     "update_query", "DeleteBook", "delete_rows"}

\* C13: a request ends with a status of its endpoint's contract, and with the
\* one its case calls for: 401 from the gate for a missing or wrong key, 400
\* for a malformed body, 404 for no row affected (500 when the rows-affected
\* call fails) or an id not in the cache, 500 only from a database call, else
\* 201 for create and 200 for the rest.
C13_StatusContract ==
    [][\A w \in Workers :
          Completes(w) =>
              LET st == resp'[w].status
              IN /\ st \in ContractStatuses(req[w].op)
                 /\ (st = 401) <=> (pc[w] = "auth")
                 /\ (st = 400) <=> (pc[w] \in {"CreateBook", "UpdateBook"}
                                      /\ ~req[w].body.ok)
                 /\ (st = 404) =>
                       \/ pc[w] \in {"update_rows", "delete_rows"} /\ loc[w].rows = 0
                       \/ pc[w] = "GetBook" /\ FindIndex(books, req[w].id) = 0
                 /\ (pc[w] \in {"update_rows", "delete_rows"} /\ loc[w].rows = 0) =>
                       st \in {404, 500}
                 /\ (pc[w] = "GetBook" /\ FindIndex(books, req[w].id) = 0) => st = 404
                 /\ (st = 500) => pc[w] \in DbCallSteps]_vars

----------------------------------------------------------------------------
\* C14: no step of a list or get-by-id request changes the table or the
\* cache; the list handler answers 200 with the cache as it is, in its order;
\* the get handler answers 200 with the first entry whose ID is the path id,
\* and 404 when there is none, whatever the table holds.
C14_ReadsLeaveState ==
    [][\A w \in Workers :
          /\ (req[w].op \in ReadOps /\ pc'[w] # pc[w]) =>
                table' = table /\ books' = books /\ nextId' = nextId
          /\ (pc[w] = "GetBooks" /\ pc'[w] # pc[w]) =>
                /\ pc'[w] = "done"
                /\ resp'[w].status = 200
                /\ resp'[w].list = books
          /\ (pc[w] = "GetBook" /\ pc'[w] # pc[w]) =>
                /\ pc'[w] = "done"
                /\ IF \E i \in 1..Len(books) : books[i].ID = req[w].id
                      THEN /\ resp'[w].status = 200
                           /\ \E i \in 1..Len(books) :
                                 /\ books[i].ID = req[w].id
                                 /\ \A j \in 1..(i - 1) : books[j].ID # req[w].id
                                 /\ resp'[w].book = books[i]
                      ELSE resp'[w].status = 404]_vars

\* A get-by-id was answered 404 for an id the table holds a row of.
C14_Witness ==
    \E w \in Workers :
        /\ pc[w] = "done" /\ resp[w].op = "GetBook" /\ resp[w].status = 404
        /\ RowsById(table, resp[w].id) # {}
        /\ \A i \in 1..Len(books) : books[i].ID # resp[w].id
        /\ books # <<>>

----------------------------------------------------------------------------
\* C15: a create or update whose body is malformed is answered 400 by the
\* first step of its handler, which changes neither the table nor the cache,
\* whether or not a row of the path id exists; a create or update reaches its
\* first database statement only from that step and with a well-formed body.
C15_ValidationFirst ==
    [][\A w \in Workers :
          /\ (pc[w] \in {"CreateBook", "UpdateBook"} /\ ~req[w].body.ok
                /\ pc'[w] # pc[w]) =>
                /\ pc'[w] = "done"
                /\ resp'[w].status = 400
                /\ table' = table
                /\ nextId' = nextId
                /\ books' = books
                /\ ~loc[w].wrote /\ ~loc'[w].wrote
          /\ (pc'[w] \in {"create_exec", "update_exec"} /\ pc'[w] # pc[w]) =>
                /\ pc[w] = req[w].op
                /\ req[w].body.ok
          /\ (pc[w] \in {"create_exec", "create_query", "update_exec",
                         "update_rows", "update_query"}) => req[w].body.ok]_vars

\* An update with a malformed body was answered 400 for an id the table has
\* no row of, and another for an id it has a row of.
C15_Witness ==
    \E v, w \in Workers :
        /\ pc[v] = "done" /\ resp[v].op = "UpdateBook" /\ resp[v].status = 400
        /\ RowsById(table, resp[v].id) = {}
        /\ pc[w] = "done" /\ resp[w].op = "UpdateBook" /\ resp[w].status = 400
        /\ RowsById(table, resp[w].id) # {}

----------------------------------------------------------------------------
\* No cached book has the id.
NotCached(bs, id) == \A i \in 1..Len(bs) : bs[i].ID # id

\* C16: an update or delete that has affected a row and comes to its cache
\* loop while no entry has its id leaves the cache as it is and answers 200
\* in that step, the update with the row it re-read.
C16_AbsentEntryNoOp ==
    [][\A w \in Workers :
          (pc[w] \in {"update_find", "delete_find"} /\ pc'[w] # pc[w]
              /\ NotCached(books, req[w].id)) =>
              /\ loc[w].rows > 0
              /\ loc[w].wrote
              /\ books' = books
              /\ pc'[w] = "done"
              /\ resp'[w].status = 200
              /\ ~loc'[w].touched
              /\ req[w].op = "UpdateBook" => resp'[w].book = loc[w].book]_vars

\* An update and a delete were answered 200 without touching a cache that
\* holds other books and none of their id.
C16_Witness ==
    \E v, w \in Workers :
        /\ pc[v] = "done" /\ resp[v].op = "UpdateBook" /\ resp[v].status = 200
        /\ loc[v].wrote /\ ~loc[v].touched
        /\ pc[w] = "done" /\ resp[w].op = "DeleteBook" /\ resp[w].status = 200
        /\ loc[w].wrote /\ ~loc[w].touched
        /\ books # <<>>
        /\ NotCached(books, resp[v].id) /\ NotCached(books, resp[w].id)

----------------------------------------------------------------------------
\* bs with its i-th entry left out.
Without(bs, i) == [k \in 1..(Len(bs) - 1) |-> IF k < i THEN bs[k] ELSE bs[k + 1]]

\* C17: a create that answers 201 leaves the cache as it was with its book
\* added at the end; an update that answers 200 leaves the length and every
\* entry but the one it replaced as they were; a delete that answers 200
\* leaves the cache as it was, or as it was with one entry taken out.
C17_InsertionOrder ==
    [][\A w \in Workers :
          /\ CompletesWith(w, "CreateBook", 201) =>
                books' = Append(books, resp'[w].book)
          /\ CompletesWith(w, "UpdateBook", 200) =>
                /\ Len(books') = Len(books)
                /\ \A k \in 1..Len(books) :
                      books'[k] # books[k] =>
                          /\ books[k].ID = req[w].id
                          /\ books'[k] = resp'[w].book
                          /\ \A j \in 1..(k - 1) : books[j].ID # req[w].id
          /\ CompletesWith(w, "DeleteBook", 200) =>
                \/ books' = books
                \/ \E i \in 1..Len(books) : books' = Without(books, i)]_vars

----------------------------------------------------------------------------
\* The cache holds the startup rendering of every row of rs, each once, and
\* nothing else.
LoadedExactly(bs, rs) ==
    /\ Len(bs) = Cardinality(rs)
    /\ \A r \in rs : \E i \in 1..Len(bs) : bs[i] = LoadBook(r)

\* C18: no request is accepted before the server is up; the cache is empty
\* until the scan starts and holds the rows scanned so far while it runs;
\* when the server is up and no request has been accepted yet the cache holds
\* every row of the table, each once; after a fatal startup error nothing is
\* served.
C18_StartupLoad ==
    /\ phase # "serving" => nreq = 0 /\ \A w \in Workers : pc[w] = "idle"
    /\ phase \in {"config", "connect"} => books = <<>>
    /\ phase = "scan" => LoadedExactly(books, table \ cursor)
    /\ (phase = "serving" /\ nreq = 0) => LoadedExactly(books, table)

----------------------------------------------------------------------------
\* C19: no two entries of the cache have the same ID.
C19_DistinctIds ==
    \A i, j \in 1..Len(books) : (i # j) => books[i].ID # books[j].ID

----------------------------------------------------------------------------
\* Worker w has answered an update with 500 because its re-read failed, after
\* its UPDATE changed a row.
FailedAfterWrite(w) ==
    pc[w] = "done" /\ resp[w].op = "UpdateBook" /\ resp[w].status = 500
        /\ loc[w].wrote /\ loc[w].last = "update_query"

\* The id has a row and a cache entry, and the entry does not carry the row's
\* title, author and year.
Stale(bs, tbl, id) ==
    RowsById(tbl, id) # {} /\ ~NotCached(bs, id) /\ ~MirrorsRow(bs, tbl, id)

\* The step in which the re-read of a create or of an update fails answers
\* 500 and changes neither the cache nor the table.
RereadFailureKeepsWrite ==
    \A w \in Workers :
        (pc[w] \in {"create_query", "update_query"} /\ pc'[w] = "done") =>
            /\ resp'[w].status = 500
            /\ loc[w].wrote /\ loc'[w].wrote /\ ~loc'[w].touched
            /\ books' = books
            /\ table' = table
            /\ nextId' = nextId

\* C20 as claimed: the failing re-read answers 500 and leaves cache and table
\* as they are, and once an update has failed so, a cache entry that differs
\* from its row goes on differing in every later step.
C20_StaleUntilRestart ==
    [][/\ RereadFailureKeepsWrite
       /\ \A w \in Workers :
             (FailedAfterWrite(w) /\ pc'[w] = "done"
                 /\ Stale(books, table, resp[w].id)) =>
                 Stale(books', table', resp[w].id)]_vars

\* C20 as amended: the failing re-read answers 500 and leaves cache and table
\* as they are, and once an update has failed so, a cache entry that differs
\* from its row goes on differing until a step of a later create, update or
\* delete changes the row or the cache.
C20_NoRollback ==
    [][/\ RereadFailureKeepsWrite
       /\ \A w \in Workers :
             (FailedAfterWrite(w) /\ pc'[w] = "done"
                 /\ Stale(books, table, resp[w].id)) =>
                 \/ Stale(books', table', resp[w].id)
                 \/ \E v \in Workers \ {w} :
                       /\ req[v].op \in WriteOps
                       /\ pc'[v] # pc[v]
                       /\ table' # table \/ books' # books]_vars

\* A create and an update have both answered 500 after their write: a row
\* without a cache entry, and a row whose cache entry has other values.
C20_Witness ==
    \E v, w \in Workers :
        /\ pc[v] = "done" /\ resp[v].op = "CreateBook" /\ resp[v].status = 500
        /\ loc[v].wrote /\ ~loc[v].touched /\ loc[v].last = "create_query"
        /\ \E r \in table : NotCached(books, ToString(r.id))
        /\ FailedAfterWrite(w) /\ ~loc[w].touched
        /\ Stale(books, table, resp[w].id)

====
